---- MODULE Spec2Model ----
(***************************************************************************)
(* Model of binette's db module (src/binette/src/db.rs): the AppFile gate  *)
(* in front of a SQLite file.  Several independent connections call        *)
(* try_open / compare_version / upgrade against one on-disk file.  The     *)
(* embedded engine is modelled by what the code relies on: an open-or-     *)
(* create primitive, scalar header reads, a catalog read, and deferred     *)
(* transactions whose writes stay private to the connection until commit   *)
(* and are discarded when the transaction is dropped.                      *)
(***************************************************************************)
EXTENDS Integers, FiniteSets, Sequences, TLC

\* ---------------------------------------------------------------- bounds
NumConns == 2
MaxOpens == 2
MaxVersion == 2
MaxNegative == 1

\* ------------------------------------------------------------- constants
SQLITE_APP_ID == 654383504
SQLITE_USER_VERSION == 1
ForeignAppId == 123

Conns == 1..NumConns
GoodPath == "db"
BadPath == "doesnt_exist/db"
Paths == {GoodPath, BadPath}
Versions == (0 - MaxNegative)..MaxVersion

VARIABLES
    file,      \* committed content of the file at GoodPath
    file0,     \* the content the file had before the first call
    onDisk,    \* the paths at which a file exists
    pc,        \* per connection: the step of try_open it is at
    result,    \* per connection: what its try_open returned, if it returned
    engine,    \* per connection: error code of its last engine call
    view,      \* per connection: its uncommitted view while it holds the write lock
    stmt,      \* per connection: index of the next statement of the schema batch
    cmp,       \* per connection: what compare_version returned on its handle
    upg,       \* per connection: what upgrade returned on its handle
    arg,       \* per connection: the path its caller passed to try_open
    opens      \* number of try_open calls made so far, over all connections

vars == <<file, file0, onDisk, pc, result, engine, view, stmt, cmp, upg, arg, opens>>

\* ------------------------------------------------------------ file state
EmptyFile == [valid |-> TRUE, appId |-> 0, userVersion |-> 0, tables |-> {}, rows |-> 0]
GarbageFile == [valid |-> FALSE, appId |-> 0, userVersion |-> 0, tables |-> {}, rows |-> 0]
Container(a, v, t) ==
    [valid |-> TRUE, appId |-> a, userVersion |-> v, tables |-> t,
     rows |-> IF "app_metadata" \in t THEN 1 ELSE 0]
\* The files a call may find: files of this application or with an unset
\* identifier, at any header version, with or without the metadata table;
\* files of another application, with or without a table.
ContainerFiles ==
    {Container(a, v, t) : a \in {0, SQLITE_APP_ID}, v \in Versions, t \in {{}, {"app_metadata"}}}
        \cup {Container(a, 0, {"other"}) : a \in {0, ForeignAppId}}
        \cup {Container(ForeignAppId, 0, {})}

NoView == [none |-> TRUE]
NoResult == [kind |-> "none", path |-> "", cause |-> "none"]

\* ------------------------------------------------------ DbError / Result
Ok == [kind |-> "Ok", path |-> "", cause |-> "none"]
EOk(v) == [ok |-> TRUE, val |-> v, err |-> "none"]
EErr(e) == [ok |-> FALSE, val |-> 0, err |-> e]

into_open_failedNoPath(r, p) ==
    IF r.ok THEN Ok ELSE [kind |-> "OpenFailed", path |-> "", cause |-> r.err]

into_open_failed(r, p) ==
    IF r.ok THEN Ok ELSE [kind |-> "OpenFailed", path |-> p, cause |-> r.err]

into_read_failed(r) ==
    IF r.ok THEN Ok ELSE [kind |-> "ReadFailed", path |-> "", cause |-> r.err]

into_write_failed(r) ==
    IF r.ok THEN Ok ELSE [kind |-> "WriteFailed", path |-> "", cause |-> r.err]

InvalidFileError == [kind |-> "InvalidFileError", path |-> "", cause |-> "none"]

into_invalid_or_read_failedSwapped(r) ==
    IF (~r.ok) /\ r.err # "NotADatabase" THEN InvalidFileError ELSE into_read_failed(r)

into_invalid_or_read_failed(r) ==
    IF (~r.ok) /\ r.err = "NotADatabase" THEN InvalidFileError ELSE into_read_failed(r)

\* ------------------------------------------------------------ the schema
schemaBumped ==
    << [op |-> "pragma_application_id", arg |-> SQLITE_APP_ID],
       [op |-> "create_table", arg |-> 0],
       [op |-> "insert_row", arg |-> 0],
       [op |-> "pragma_user_version", arg |-> SQLITE_USER_VERSION + 1] >>

schema ==
    << [op |-> "pragma_application_id", arg |-> SQLITE_APP_ID],
       [op |-> "create_table", arg |-> 0],
       [op |-> "insert_row", arg |-> 0],
       [op |-> "pragma_user_version", arg |-> SQLITE_USER_VERSION] >>

\* One statement of the batch applied to a connection's view.
ExecStatementIfNotExists(s, v) ==
    CASE s.op = "pragma_application_id" -> EOk([v EXCEPT !.appId = s.arg])
      [] s.op = "create_table" -> EOk([v EXCEPT !.tables = @ \cup {"app_metadata"}])
      [] s.op = "insert_row" ->
            IF "app_metadata" \in v.tables
            THEN EOk([v EXCEPT !.rows = @ + 1])
            ELSE EErr("NoSuchTable")
      [] s.op = "pragma_user_version" -> EOk([v EXCEPT !.userVersion = s.arg])

ExecStatement(s, v) ==
    CASE s.op = "pragma_application_id" -> EOk([v EXCEPT !.appId = s.arg])
      [] s.op = "create_table" ->
            IF "app_metadata" \in v.tables
            THEN EErr("TableExists")
            ELSE EOk([v EXCEPT !.tables = @ \cup {"app_metadata"}])
      [] s.op = "insert_row" ->
            IF "app_metadata" \in v.tables
            THEN EOk([v EXCEPT !.rows = @ + 1])
            ELSE EErr("NoSuchTable")
      [] s.op = "pragma_user_version" -> EOk([v EXCEPT !.userVersion = s.arg])

\* What is persisted when a transaction is dropped without commit: rusqlite's
\* default drop behaviour rolls back, so the committed file stays as it was.
DropTransactionCommits(f, v) == IF v = NoView THEN f ELSE v

DropTransaction(f, v) == f

\* ----------------------------------------------------- engine primitives
Openable(p) == p = GoodPath

\* Connection::open
ConnectionOpen(p) ==
    (IF Openable(p) THEN {EOk(0)} ELSE {}) \cup {EErr("CannotOpen")}

\* query_row on pragma_application_id
ReadApplicationId(f) ==
    (IF f.valid THEN {EOk(f.appId)} ELSE {}) \cup {EErr("NotADatabase"), EErr("IoErr")}

\* "initialized" read off the schema-version header instead of the catalog
TableExistsByVersion(f) ==
    (IF f.valid THEN {EOk(IF f.userVersion # 0 THEN 1 ELSE 0)} ELSE {})
        \cup {EErr("NotADatabase"), EErr("IoErr")}

\* prepare + exists on sqlite_schema
TableExists(f) ==
    (IF f.valid THEN {EOk(IF f.tables # {} THEN 1 ELSE 0)} ELSE {})
        \cup {EErr("NotADatabase"), EErr("IoErr")}

\* query_row on pragma_user_version, converted to u32 by r.get(0)
ReadUserVersion(f) ==
    {IF f.userVersion < 0 THEN EErr("IntegralValueOutOfRange") ELSE EOk(f.userVersion)}
        \cup {EErr("IoErr")}

AcceptedAppIdAny(id) == TRUE

AcceptedAppIdNonZero(id) == id # 0

AcceptedAppIdInverted(id) == id = 0 \/ id # SQLITE_APP_ID

AcceptedAppId(id) == id = 0 \/ id = SQLITE_APP_ID

Cmp(a, b) == IF a < b THEN "Less" ELSE IF a = b THEN "Equal" ELSE "Greater"

LockFree == \A c \in Conns : view[c] = NoView

\* ------------------------------------------------------------------ Init
Init ==
    /\ \E f \in ContainerFiles \cup {GarbageFile} :
          /\ file = f
          /\ onDisk \in (IF f = EmptyFile THEN {{}, {GoodPath}} ELSE {{GoodPath}})
    /\ file0 = file
    /\ pc = [c \in Conns |-> "idle"]
    /\ result = [c \in Conns |-> NoResult]
    /\ engine = [c \in Conns |-> "none"]
    /\ view = [c \in Conns |-> NoView]
    /\ stmt = [c \in Conns |-> 1]
    /\ cmp = [c \in Conns |-> "none"]
    /\ upg = [c \in Conns |-> "none"]
    /\ arg = [c \in Conns |-> ""]
    /\ opens = 0

Running(c) == result[c] = NoResult

\* A step of try_open that returns early with error res.
Return(c, res, e) ==
    /\ result' = [result EXCEPT ![c] = res]
    /\ engine' = [engine EXCEPT ![c] = e]
    /\ file' = DropTransaction(file, view[c])
    /\ view' = [view EXCEPT ![c] = NoView]

\* try_open, line 134: Connection::open(path).into_open_failed(path)?
TryOpenOpen(c) ==
    /\ pc[c] = "idle"
    /\ opens < MaxOpens
    /\ \E p \in Paths : \E r \in ConnectionOpen(p) :
          LET res == into_open_failed(r, p) IN
          /\ opens' = opens + 1
          /\ arg' = [arg EXCEPT ![c] = p]
          /\ stmt' = [stmt EXCEPT ![c] = 1]
          /\ IF res.kind = "Ok"
             THEN /\ pc' = [pc EXCEPT ![c] = "appId"]
                  /\ onDisk' = onDisk \cup {p}
                  /\ engine' = [engine EXCEPT ![c] = "none"]
                  /\ UNCHANGED <<result, file, view>>
             ELSE /\ pc' = [pc EXCEPT ![c] = "open"]
                  /\ Return(c, res, r.err)
                  /\ UNCHANGED onDisk
    /\ UNCHANGED <<file0, cmp, upg>>

\* try_open, lines 136-146: read the application id and classify it
TryOpenAppId(c) ==
    /\ pc[c] = "appId" /\ Running(c)
    /\ \E r \in ReadApplicationId(file) :
          LET res == into_invalid_or_read_failed(r) IN
          IF res.kind # "Ok"
          THEN Return(c, res, r.err) /\ UNCHANGED pc
          ELSE IF ~AcceptedAppId(r.val)
          THEN Return(c, InvalidFileError, "none") /\ UNCHANGED pc
          ELSE /\ pc' = [pc EXCEPT ![c] = "tables"]
               /\ engine' = [engine EXCEPT ![c] = "none"]
               /\ UNCHANGED <<result, file, view>>
    /\ UNCHANGED <<file0, onDisk, stmt, cmp, upg, arg, opens>>

\* try_open, lines 149-154 and 162: is there any table?
TryOpenTables(c) ==
    /\ pc[c] = "tables" /\ Running(c)
    /\ \E r \in TableExists(file) :
          LET res == into_invalid_or_read_failed(r) IN
          IF res.kind # "Ok"
          THEN Return(c, res, r.err) /\ UNCHANGED pc
          ELSE IF r.val = 1
          THEN /\ pc' = [pc EXCEPT ![c] = "handle"]
               /\ result' = [result EXCEPT ![c] = Ok]
               /\ engine' = [engine EXCEPT ![c] = "none"]
               /\ UNCHANGED <<file, view>>
          ELSE /\ pc' = [pc EXCEPT ![c] = "begin"]
               /\ engine' = [engine EXCEPT ![c] = "none"]
               /\ UNCHANGED <<result, file, view>>
    /\ UNCHANGED <<file0, onDisk, stmt, cmp, upg, arg, opens>>

\* try_open, line 155: connection.transaction() (BEGIN DEFERRED: no lock yet)
TryOpenBegin(c) ==
    /\ pc[c] = "begin" /\ Running(c)
    /\ \E r \in {EOk(0), EErr("IoErr")} :
          LET res == into_write_failed(r) IN
          IF res.kind # "Ok"
          THEN Return(c, res, r.err) /\ UNCHANGED pc
          ELSE /\ pc' = [pc EXCEPT ![c] = "batch"]
               /\ engine' = [engine EXCEPT ![c] = "none"]
               /\ UNCHANGED <<result, file, view>>
    /\ UNCHANGED <<file0, onDisk, stmt, cmp, upg, arg, opens>>

\* The outcomes of running the next statement of the batch: the first write
\* takes the write lock (or times out, Busy, while another connection holds
\* it); a statement may also fail for an external reason.
StatementOutcomesNoTimeout(c) ==
    LET mine == IF view[c] = NoView THEN file ELSE view[c] IN
    IF view[c] # NoView \/ LockFree
    THEN {ExecStatement(schema[stmt[c]], mine), EErr("IoErr")}
    ELSE {}

StatementOutcomes(c) ==
    LET mine == IF view[c] = NoView THEN file ELSE view[c] IN
    (IF view[c] # NoView \/ LockFree THEN {ExecStatement(schema[stmt[c]], mine)} ELSE {EErr("Busy")})
        \cup {EErr("IoErr")}

\* The batch run on the bare connection: every statement is committed as it runs.
TryOpenBatchAutocommit(c) ==
    /\ pc[c] = "batch" /\ Running(c)
    /\ \E r \in StatementOutcomes(c) :
          LET res == into_write_failed(r) IN
          IF res.kind # "Ok"
          THEN Return(c, res, r.err) /\ UNCHANGED <<pc, stmt>>
          ELSE /\ view' = [view EXCEPT ![c] = r.val]
               /\ file' = r.val
               /\ stmt' = [stmt EXCEPT ![c] = @ + 1]
               /\ pc' = [pc EXCEPT ![c] = IF stmt[c] = Len(schema) THEN "commit" ELSE "batch"]
               /\ engine' = [engine EXCEPT ![c] = "none"]
               /\ UNCHANGED result
    /\ UNCHANGED <<file0, onDisk, cmp, upg, arg, opens>>

\* try_open, lines 156-158: transaction.execute_batch(schema()), one statement
TryOpenBatch(c) ==
    /\ pc[c] = "batch" /\ Running(c)
    /\ \E r \in StatementOutcomes(c) :
          LET res == into_write_failed(r) IN
          IF res.kind # "Ok"
          THEN Return(c, res, r.err) /\ UNCHANGED <<pc, stmt>>
          ELSE /\ view' = [view EXCEPT ![c] = r.val]
               /\ stmt' = [stmt EXCEPT ![c] = @ + 1]
               /\ pc' = [pc EXCEPT ![c] = IF stmt[c] = Len(schema) THEN "commit" ELSE "batch"]
               /\ engine' = [engine EXCEPT ![c] = "none"]
               /\ UNCHANGED <<result, file>>
    /\ UNCHANGED <<file0, onDisk, cmp, upg, arg, opens>>

\* try_open, lines 159 and 162: transaction.commit()
TryOpenCommit(c) ==
    /\ pc[c] = "commit" /\ Running(c)
    /\ \E r \in {EOk(0), EErr("IoErr")} :
          LET res == into_write_failed(r) IN
          IF res.kind # "Ok"
          THEN Return(c, res, r.err) /\ UNCHANGED pc
          ELSE /\ file' = view[c]
               /\ view' = [view EXCEPT ![c] = NoView]
               /\ pc' = [pc EXCEPT ![c] = "handle"]
               /\ result' = [result EXCEPT ![c] = Ok]
               /\ engine' = [engine EXCEPT ![c] = "none"]
    /\ UNCHANGED <<file0, onDisk, stmt, cmp, upg, arg, opens>>

\* compare_version that also stamps the header with the current version
CompareVersionStamps(c) ==
    /\ pc[c] = "handle"
    /\ \E r \in ReadUserVersion(file) :
          LET res == into_read_failed(r) IN
          /\ cmp' = [cmp EXCEPT ![c] =
                        IF res.kind # "Ok" THEN "ReadFailed"
                        ELSE Cmp(r.val, SQLITE_USER_VERSION)]
          /\ engine' = [engine EXCEPT ![c] = r.err]
    /\ file' = [file EXCEPT !.userVersion = SQLITE_USER_VERSION]
    /\ UNCHANGED <<file0, onDisk, pc, result, view, stmt, upg, arg, opens>>

\* compare_version, lines 167-176
CompareVersion(c) ==
    /\ pc[c] = "handle"
    /\ \E r \in ReadUserVersion(file) :
          LET res == into_read_failed(r) IN
          /\ cmp' = [cmp EXCEPT ![c] =
                        IF res.kind # "Ok" THEN "ReadFailed"
                        ELSE Cmp(r.val, SQLITE_USER_VERSION)]
          /\ engine' = [engine EXCEPT ![c] = r.err]
    /\ UNCHANGED <<file, file0, onDisk, pc, result, view, stmt, upg, arg, opens>>

\* upgrade that migrates: it writes the current version into the header
UpgradeMigrates(c) ==
    /\ pc[c] = "handle"
    /\ upg' = [upg EXCEPT ![c] = "Ok"]
    /\ file' = [file EXCEPT !.userVersion = SQLITE_USER_VERSION]
    /\ UNCHANGED <<file0, onDisk, pc, result, engine, view, stmt, cmp, arg, opens>>

\* upgrade, lines 182-185
Upgrade(c) ==
    /\ pc[c] = "handle"
    /\ upg' = [upg EXCEPT ![c] = "Ok"]
    /\ UNCHANGED <<file, file0, onDisk, pc, result, engine, view, stmt, cmp, arg, opens>>

\* The caller drops the handle, or the error, and may call try_open again.
Release(c) ==
    /\ pc[c] # "idle" /\ ~Running(c)
    /\ pc' = [pc EXCEPT ![c] = "idle"]
    /\ result' = [result EXCEPT ![c] = NoResult]
    /\ engine' = [engine EXCEPT ![c] = "none"]
    /\ cmp' = [cmp EXCEPT ![c] = "none"]
    /\ upg' = [upg EXCEPT ![c] = "none"]
    /\ arg' = [arg EXCEPT ![c] = ""]
    /\ UNCHANGED <<file, file0, onDisk, view, stmt, opens>>

Next ==
    \E c \in Conns :
        \/ TryOpenOpen(c)
        \/ TryOpenAppId(c)
        \/ TryOpenTables(c)
        \/ TryOpenBegin(c)
        \/ TryOpenBatch(c)
        \/ TryOpenCommit(c)
        \/ CompareVersion(c)
        \/ Upgrade(c)
        \/ Release(c)

Spec == Init /\ [][Next]_vars

\* A try_open call is synchronous: the thread that made it keeps running its
\* steps.  Nothing is assumed about the other connections, which may stall at
\* any point, also while holding the write lock.
Caller == CHOOSE c \in Conns : TRUE
TryOpenStep(c) ==
    \/ TryOpenAppId(c)
    \/ TryOpenTables(c)
    \/ TryOpenBegin(c)
    \/ TryOpenBatch(c)
    \/ TryOpenCommit(c)
SpecFair == Spec /\ WF_vars(TryOpenStep(Caller))

\* ------------------------------------------------------------ properties
NewPath == file0 = EmptyFile
Uninitialized(f) ==
    f.valid /\ f.appId = 0 /\ f.userVersion = 0 /\ f.tables = {} /\ f.rows = 0
FullyInitialized(f) ==
    /\ f.valid
    /\ f.appId = SQLITE_APP_ID
    /\ f.userVersion = SQLITE_USER_VERSION
    /\ f.tables = {"app_metadata"}
    /\ f.rows = 1
Foreign(f) == f.valid /\ f.appId # 0 /\ f.appId # SQLITE_APP_ID
Returned(c) == result[c] # NoResult
Failed(c) == Returned(c) /\ result[c].kind # "Ok"
RanBatch(c) == stmt[c] = Len(schema) + 1
InTransaction(c) == pc[c] \in {"begin", "batch", "commit"}

\* C1: a file that started absent or empty is, in every committed state, either
\* uninitialized (identifier 0, version 0, no table) or fully initialized
\* (identifier, version 1, app_metadata with one row), whatever calls ran,
\* failed or raced.
C1_AllOrNothing == NewPath => (Uninitialized(file) \/ FullyInitialized(file))

C1_Witness ==
    /\ NewPath
    /\ FullyInitialized(file)
    /\ \E c \in Conns : result[c].kind = "WriteFailed" /\ stmt[c] > 1

\* C2: when a step of the initialization transaction fails (begin, a statement
\* of the batch, or commit), try_open returns WriteFailed and the committed file
\* is left as it was; the committed file changes only in a step in which a
\* commit succeeds and its call returns the handle.
C2_Step ==
    /\ \A c \in Conns :
          (InTransaction(c) /\ Running(c) /\ result'[c] # NoResult /\ result'[c].kind # "Ok")
              => (result'[c].kind = "WriteFailed" /\ file' = file /\ view'[c] = NoView)
    /\ file' # file =>
          \E c \in Conns : pc[c] = "commit" /\ Running(c) /\ result'[c] = Ok /\ file' = view[c]

C2_FailedInitLeavesFile == [][C2_Step]_vars

C2_Witness ==
    \E c \in Conns :
        /\ result[c].kind = "WriteFailed"
        /\ pc[c] = "batch" /\ stmt[c] = 3
        /\ Uninitialized(file0)
        /\ file = file0

\* C3: on a new path, no connection executes a statement of the initialization
\* batch once the file is initialized: whoever holds uncommitted initialization
\* writes holds them against a file that has no table.
C3_NeverBothInitialize ==
    NewPath => \A c \in Conns : view[c] # NoView => file.tables = {}

\* C4: on a new path the file never holds more than one metadata row, every
\* call that returned a handle sees the fully initialized file, and a call that
\* returns an error changes nothing in the committed file.
C4_State ==
    NewPath =>
        /\ file.rows <= 1
        /\ \A c \in Conns : result[c].kind = "Ok" => FullyInitialized(file)
        /\ Cardinality({c \in Conns : result[c].kind = "Ok" /\ RanBatch(c)}) <= 1

C4_Step ==
    \A c \in Conns :
        (Running(c) /\ result'[c] # NoResult /\ result'[c].kind # "Ok") => file' = file

C4_OneRowAfterRace == C4_State /\ [][C4_State' /\ C4_Step]_vars

C4_Witness ==
    /\ NewPath
    /\ file.rows = 1
    /\ \E c, d \in Conns :
          /\ result[c].kind = "Ok" /\ RanBatch(c)
          /\ result[d].kind = "WriteFailed" /\ engine[d] = "TableExists"

\* C5: on a valid container whose identifier is neither 0 nor the constant,
\* try_open returns InvalidFileError at the identifier check (ReadFailed or
\* OpenFailed only when the engine call itself failed), never reaches the table
\* check or the transaction, and the file stays as it was.
C5_ForeignRejected ==
    Foreign(file0) =>
        /\ file = file0
        /\ \A c \in Conns :
              /\ pc[c] \in {"idle", "open", "appId"}
              /\ view[c] = NoView /\ stmt[c] = 1
              /\ (Returned(c) /\ pc[c] = "appId" /\ engine[c] = "none")
                    => result[c] = InvalidFileError
              /\ Returned(c) =>
                    result[c].kind \in {"InvalidFileError", "ReadFailed", "OpenFailed"}

C5_Witness ==
    /\ Foreign(file0)
    /\ file0.tables = {}
    /\ \E c \in Conns :
          pc[c] = "appId" /\ result[c] = InvalidFileError /\ engine[c] = "none"

\* C6: a failure of the identifier read or of the catalog read is reported as
\* InvalidFileError when the engine error is NotADatabase and as ReadFailed for
\* any other engine error, never as WriteFailed, and the step writes nothing.
C6_State ==
    \A c \in Conns :
        (pc[c] \in {"appId", "tables"} /\ Returned(c)) =>
            /\ engine[c] = "NotADatabase" => result[c] = InvalidFileError
            /\ engine[c] \notin {"none", "NotADatabase"} =>
                  (result[c].kind = "ReadFailed" /\ result[c].cause = engine[c])
            /\ result[c].kind # "WriteFailed"
            /\ view[c] = NoView /\ stmt[c] = 1

C6_Step ==
    \A c \in Conns :
        (pc[c] \in {"appId", "tables"} /\ Running(c) /\ result'[c] # NoResult /\ result'[c].kind # "Ok")
            => file' = file

C6_ReadErrorMapping == C6_State /\ [][C6_State' /\ C6_Step]_vars

C6_Witness ==
    /\ ~file0.valid
    /\ \E c \in Conns :
          pc[c] = "appId" /\ engine[c] = "NotADatabase" /\ result[c] = InvalidFileError

\* C7: on a new path, every handle is a handle on the fully initialized file
\* with its single metadata row, compare_version on it reports Equal whenever
\* its header read succeeds, and at most one successful open ran the batch:
\* the others skipped it.
C7_SequentialOpens ==
    NewPath =>
        /\ \A c \in Conns :
              pc[c] = "handle" =>
                  /\ FullyInitialized(file)
                  /\ stmt[c] = 1 \/ RanBatch(c)
                  /\ cmp[c] \in {"none", "Equal", "ReadFailed"}
                  /\ cmp[c] = "ReadFailed" => engine[c] = "IoErr"
        /\ Cardinality({c \in Conns : pc[c] = "handle" /\ RanBatch(c)}) <= 1

C7_Witness ==
    /\ NewPath
    /\ \E c, d \in Conns :
          /\ pc[c] = "handle" /\ RanBatch(c) /\ cmp[c] = "Equal"
          /\ pc[d] = "handle" /\ stmt[d] = 1 /\ cmp[d] = "Equal"

\* C8: whenever compare_version has returned on a handle and the engine's read
\* of the header did not fail, the value returned is the three-way comparison
\* of the header with the current schema version.
C8_CompareIsOrdering ==
    \A c \in Conns :
        (pc[c] = "handle" /\ cmp[c] # "none" /\ engine[c] # "IoErr")
            => cmp[c] = Cmp(file.userVersion, SQLITE_USER_VERSION)

\* C9: on a file try_open accepts, no step lowers the schema-version header,
\* and no step changes a header that is non-zero.
C9_Step ==
    (file.valid /\ AcceptedAppId(file.appId)) =>
        /\ file'.userVersion >= file.userVersion
        /\ file.userVersion # 0 => file'.userVersion = file.userVersion

C9_VersionNeverDecreases == [][C9_Step]_vars

\* C10: a non-zero application identifier never changes; the identifier
\* changes only in a successful commit of the initialization transaction, which
\* stores the constant over a header that was 0 or already the constant.
C10_Step ==
    /\ file.appId # 0 => file'.appId = file.appId
    /\ file' # file =>
          /\ file.appId \in {0, SQLITE_APP_ID}
          /\ file'.appId = SQLITE_APP_ID
          /\ \E c \in Conns : pc[c] = "commit" /\ Running(c) /\ file' = view[c]

C10_AppIdImmutable == [][C10_Step]_vars

C10_Witness ==
    /\ file0.appId = SQLITE_APP_ID /\ file0.tables = {}
    /\ file.tables = {"app_metadata"}
    /\ file.appId = SQLITE_APP_ID
    /\ \E c \in Conns : pc[c] = "handle" /\ RanBatch(c)

\* C11: a step in which upgrade returns on a handle returns Ok, whatever the
\* header version is, and changes neither the committed file nor the handle nor
\* what compare_version reported; a handle on which upgrade has returned Ok sits
\* on a file that still compares to the current version as it did at the start.
C11_Step ==
    \A c \in Conns :
        (pc[c] = "handle" /\ upg'[c] # upg[c] /\ pc'[c] = "handle") =>
            /\ upg'[c] = "Ok"
            /\ file' = file /\ onDisk' = onDisk
            /\ cmp' = cmp /\ result' = result /\ view' = view

C11_State ==
    \A c \in Conns :
        (upg[c] = "Ok" /\ file0.tables # {}) => file = file0

C12_UpgradeReachesCurrent ==
    \A c \in Conns :
        (pc[c] = "handle" /\ upg[c] = "Ok" /\ cmp[c] = "Less")
            => file.userVersion = SQLITE_USER_VERSION

\* C13: a step in which compare_version returns, with an ordering or with
\* ReadFailed, changes neither the committed file, nor which files exist, nor
\* the handle.
C13_Step ==
    \A c \in Conns :
        (pc[c] = "handle" /\ pc'[c] = "handle" /\ (cmp'[c] # cmp[c] \/ engine'[c] # engine[c])) =>
            /\ file' = file /\ onDisk' = onDisk
            /\ pc' = pc /\ result' = result /\ view' = view /\ stmt' = stmt

C13_CompareReadOnly == [][C13_Step]_vars

C13_Witness ==
    \E c, d \in Conns :
        /\ cmp[c] = "ReadFailed" /\ cmp[d] = "Less"
        /\ file = file0

\* C14: when the open primitive fails, try_open returns OpenFailed carrying
\* the path its caller passed, has run none of the later steps, and the step
\* creates no file; no file ever appears at a path that cannot be opened.
C14_State ==
    /\ \A c \in Conns :
          /\ pc[c] = "open" => (Returned(c) /\ result[c].kind = "OpenFailed")
          /\ result[c].kind = "OpenFailed" =>
                /\ pc[c] = "open"
                /\ result[c].path = arg[c]
                /\ result[c].cause = engine[c]
                /\ view[c] = NoView /\ stmt[c] = 1
    /\ \A p \in Paths : ~Openable(p) => p \notin onDisk

C14_Step ==
    \A c \in Conns :
        (result[c].kind # "OpenFailed" /\ result'[c].kind = "OpenFailed")
            => (file' = file /\ onDisk' = onDisk)

C14_OpenFailedKeepsPath == C14_State /\ [][C14_State' /\ C14_Step]_vars

C14_Witness ==
    \E c \in Conns :
        /\ result[c].kind = "OpenFailed"
        /\ arg[c] = BadPath /\ result[c].path = BadPath
        /\ onDisk = {}

\* C15: a try_open call whose thread keeps running eventually returns, with
\* a handle or an error, whatever the other connections do or fail to do: while
\* another connection holds the write lock the batch ends in Busy (WriteFailed)
\* instead of waiting for the lock.
C15_EveryCallReturns ==
    (pc[Caller] # "idle" /\ Running(Caller)) ~> Returned(Caller)

C15_Witness ==
    /\ result[Caller].kind = "WriteFailed"
    /\ engine[Caller] = "Busy"
    /\ \E d \in Conns : d # Caller /\ view[d] # NoView /\ Running(d)

\* C16: the table check alone decides: when it succeeds on a file with a
\* table the call returns the handle at once, having run no statement and
\* written nothing, whatever the headers hold; on a file without a table the
\* call goes on to begin the initialization transaction.  A file that starts
\* with a table is never written.
C16_Step ==
    \A c \in Conns :
        (pc[c] = "tables" /\ Running(c) /\ pc'[c] # "tables") =>
            IF file.tables # {}
            THEN /\ pc'[c] = "handle" /\ result'[c] = Ok
                 /\ file' = file /\ view'[c] = NoView /\ stmt'[c] = 1
            ELSE pc'[c] = "begin" /\ result'[c] = NoResult

C16_State ==
    file0.tables # {} =>
        /\ file = file0
        /\ \A c \in Conns : ~InTransaction(c) /\ view[c] = NoView /\ stmt[c] = 1

C16_TablesDecide == C16_State /\ [][C16_State' /\ C16_Step]_vars

C16_Witness ==
    /\ file0.tables # {} /\ file0.appId = 0 /\ file0.userVersion = 0
    /\ \E c \in Conns : pc[c] = "handle" /\ stmt[c] = 1

\* C17 (as stated): every handle is on a file whose identifier is the
\* constant, whose schema version is non-zero and that has app_metadata.
C17_HandleIsInitialized ==
    \A c \in Conns :
        pc[c] = "handle" =>
            /\ file.appId = SQLITE_APP_ID
            /\ file.userVersion # 0
            /\ "app_metadata" \in file.tables

\* C17 (amended): every handle is on a valid file that has at least one table
\* and whose identifier is 0 or the constant; when the call itself ran the
\* initialization, the identifier is the constant, the schema version is the
\* current one and app_metadata is present.
C17_HandleIsAccepted ==
    \A c \in Conns :
        pc[c] = "handle" =>
            /\ file.valid
            /\ file.tables # {}
            /\ file.appId \in {0, SQLITE_APP_ID}
            /\ RanBatch(c) =>
                  /\ file.appId = SQLITE_APP_ID
                  /\ file.userVersion = SQLITE_USER_VERSION
                  /\ "app_metadata" \in file.tables

C17_Witness ==
    /\ file.appId = 0 /\ file.tables = {"other"}
    /\ \E c \in Conns : pc[c] = "handle" /\ result[c] = Ok

\* C18: whenever compare_version has returned and the engine's read of the
\* header did not fail, it returned an ordering, and Less for a negative header.
C18_CompareNeverFailsOnValue ==
    \A c \in Conns :
        (pc[c] = "handle" /\ cmp[c] # "none" /\ engine[c] # "IoErr") =>
            /\ cmp[c] \in {"Less", "Equal", "Greater"}
            /\ file.userVersion < 0 => cmp[c] = "Less"

====
